---- MODULE Spec2Model ----
(***************************************************************************)
(* Model of the bootstrap glue of the YouTube MCP server:                  *)
(*   src/src/modules/mcp_servers/mcp_yt_server.py                          *)
(*        resolve_cache_dir, purge_cache, attach_everything,               *)
(*        launch_server, port_type, build_parser, main                     *)
(*   src/src/debug_stub.py                                                 *)
(*        debug_stub                                                       *)
(*                                                                         *)
(* Four specifications share the variables:                                *)
(*   Spec      the server start-up: main -> launch_server -> purge_cache   *)
(*             -> attach_everything -> mcp.run                             *)
(*   SpecPort  main with a --port argument (port_type)                     *)
(*   SpecPath  resolve_cache_dir                                           *)
(*   SpecStub  debug_stub                                                  *)
(***************************************************************************)
EXTENDS Integers, Sequences, FiniteSets, TLC

VARIABLES
    pc,          \* position of the server process
    cli_days,    \* args.purge_cache_days
    port_arg,    \* the --port argument: [given, value]
    purge_days,  \* launch_server's purge_days: <<>> is None, <<d>> is d
    launch_port, \* launch_server's port: <<>> before the call
    exit_status, \* process exit status: <<>> while running
    raised_in,   \* the function an exception escaped from, "" if none
    dirs,        \* state of <cache_root>/audio and <cache_root>/transcripts
    fs,          \* the entries of the two sub-directories now on disk
    fs0,         \* the entries on disk when the process started
    rel_i,       \* index of purge_cache's outer loop in Rels
    todo,        \* entries of the current iterdir() not yet visited
    visited,     \* entries whose loop body has completed
    unlinked,    \* entries purge_cache deleted with path.unlink
    logged,      \* entries for which logger.exception was called
    oserrors,    \* entries on which a filesystem call met an OS error
    vanished,    \* entries another process deleted while purge_cache ran
    events,      \* the calls launch_server has made, in order
    port_result, \* what port_type did with the --port argument
    env,         \* MCP_CACHE_DIR: [set, val]
    project_dir, \* the argument of resolve_cache_dir
    cache_dir,   \* what resolve_cache_dir returned: <<>> before it returns
    made_dirs,   \* the directories created while resolving
    path_pc,     \* position of the caller of resolve_cache_dir
    argv,        \* sys.argv[1:] of the debug stub
    stub_pc,     \* position of debug_stub
    stub_test,   \* args.test: <<>> if absent
    dispatched,  \* the external routine debug_stub called, "none" if none
    printed,     \* what debug_stub printed: "", "usage" or "help"
    stub_exit    \* exit status of the debug stub: <<>> while running

serverVars == <<pc, cli_days, port_arg, purge_days, launch_port, exit_status,
                raised_in, dirs, fs, fs0, rel_i, todo, visited, unlinked,
                logged, oserrors, vanished, events, port_result>>

pathVars == <<env, project_dir, cache_dir, made_dirs, path_pc>>

stubVars == <<argv, stub_pc, stub_test, dispatched, printed, stub_exit>>

vars == <<serverVars, pathVars, stubVars>>

----------------------------------------------------------------------------
(* Bounds *)

MaxDays == 1
NegDays == 1
AudioEntries == 1
TranscriptEntries == 2
MaxPortLen == 5
MaxPathLen == 2
MaxArgs == 2

(* Program constants *)

SecondsPerDay == 86400
DefaultPort == 8085
DefaultPurgeDays == 7
MinPort == 1
MaxPort == 65535

----------------------------------------------------------------------------
(* purge_cache *)

\* time.time() when purge_cache is called
Now == 10 * SecondsPerDay

\* for rel in ("audio", "transcripts")
Rels == <<"audio", "transcripts">>

RelSet == {Rels[i] : i \in 1..Len(Rels)}

None == <<>>

\* Cutoff with the days not converted to seconds
Cutoff_m(days) == Now - days

\* cutoff = time.time() - (days * 86_400)
Cutoff(days) == Now - (days * SecondsPerDay)

\* path.stat().st_mtime < cutoff
Stale(e, cutoff) == e.mtime < cutoff

\* What d.exists() / d.iterdir() can meet at <cache_root>/<rel>
DirStates == {"missing", "dir", "notdir", "noaccess"}

EntryIds == {<<rel, n>> : rel \in {"audio"}, n \in 1..AudioEntries}
            \cup {<<rel, n>> : rel \in {"transcripts"}, n \in 1..TranscriptEntries}

\* modification times around the retention boundary
Offsets == {-1, 0, 1}

Boundary(days) == IF days < 0 THEN Now ELSE Now - days * SecondsPerDay

Attrs(days) == {[kind |-> "dir", mtime |-> Now]}
               \cup {[kind |-> "file", mtime |-> Boundary(days) + o] : o \in Offsets}

Entry(id, a) == [rel |-> id[1], name |-> id[2], kind |-> a.kind, mtime |-> a.mtime]

\* What can happen to one entry while the loop body runs on it
Faults == {"none", "is_file_error", "stat_error", "unlink_error",
           "vanish_before_unlink"}

\* path.unlink(missing_ok=True)
Unlink(present, missing_ok, fails) ==
    IF fails THEN "OSError"
    ELSE IF ~present THEN (IF missing_ok THEN "absent" ELSE "OSError")
    ELSE "removed"

\* The body of the inner loop on one entry under one fault:
\* the outcome of `if path.is_file() and path.stat().st_mtime < cutoff:
\* path.unlink(missing_ok=True)`, OSError included.
\* is_file() on an error other than ENOENT/ENOTDIR/EBADF/ELOOP raises or
\* returns False depending on the Python version: `lenient` picks.
Body(e, cutoff, fault, lenient) ==
    IF fault = "is_file_error" THEN (IF lenient THEN "skipped" ELSE "OSError")
    ELSE IF e.kind # "file" THEN "skipped"
    ELSE IF fault = "stat_error" THEN "OSError"
    ELSE IF ~Stale(e, cutoff) THEN "kept"
    ELSE Unlink(fault # "vanish_before_unlink", TRUE, fault = "unlink_error")

\* The faults that are an OS error of a call on the entry
OSFaults == {"is_file_error", "stat_error", "unlink_error"}

\* A fault strikes at the call it names, so it needs that call to be reached
Reached(e, cutoff, fault) ==
    CASE fault \in {"none", "is_file_error"} -> TRUE
      [] fault = "stat_error" -> e.kind = "file"
      [] fault \in {"unlink_error", "vanish_before_unlink"} ->
            e.kind = "file" /\ Stale(e, cutoff)

\* iterdir() yields the entries in the directory's own order
NextEntry(S) == CHOOSE e \in S : \A f \in S : e.name <= f.name

----------------------------------------------------------------------------
(* port_type *)

Digits == <<"0", "1", "2", "3", "4", "5", "6", "7", "8", "9">>

IsDigit(c) == \E i \in 1..Len(Digits) : Digits[i] = c

DigitVal(c) == (CHOOSE i \in 1..Len(Digits) : Digits[i] = c) - 1

RECURSIVE LStrip(_)
LStrip(s) == IF s # <<>> /\ Head(s) = " " THEN LStrip(Tail(s)) ELSE s

RECURSIVE RStrip(_)
RStrip(s) == IF s # <<>> /\ s[Len(s)] = " " THEN RStrip(SubSeq(s, 1, Len(s) - 1)) ELSE s

RECURSIVE DigitsValue(_, _)
DigitsValue(s, acc) ==
    IF s = <<>> THEN acc
    ELSE IF Head(s) = "_" THEN DigitsValue(Tail(s), acc)
    ELSE DigitsValue(Tail(s), acc * 10 + DigitVal(Head(s)))

\* the digit part of an int literal: digits, single underscores between them
WellFormedDigits(s) ==
    /\ s # <<>>
    /\ IsDigit(s[1]) /\ IsDigit(s[Len(s)])
    /\ \A i \in 1..Len(s) : IsDigit(s[i]) \/ s[i] = "_"
    /\ \A i \in 1..(Len(s) - 1) : ~(s[i] = "_" /\ s[i + 1] = "_")

\* int(value) on a str: surrounding whitespace stripped, an optional sign,
\* decimal digits; anything else is ValueError (ok = FALSE)
IntParse(value) ==
    LET t == RStrip(LStrip(value))
        signed == t # <<>> /\ Head(t) \in {"+", "-"}
        body == IF signed THEN Tail(t) ELSE t
        mag == DigitsValue(body, 0)
    IN  IF ~WellFormedDigits(body) THEN [ok |-> FALSE, val |-> 0]
        ELSE [ok |-> TRUE, val |-> IF signed /\ Head(t) = "-" THEN 0 - mag ELSE mag]

ArgumentTypeError == [kind |-> "ArgumentTypeError", val |-> 0]

\* port_type with both range limits off by one
port_type_m(value) ==
    LET r == IntParse(value)
    IN  IF ~r.ok THEN ArgumentTypeError
        ELSE IF ~(0 <= r.val /\ r.val <= MaxPort + 1) THEN ArgumentTypeError
        ELSE [kind |-> "return", val |-> r.val]

port_type(value) ==
    LET r == IntParse(value)
    IN  IF ~r.ok THEN ArgumentTypeError
        ELSE IF ~(MinPort <= r.val /\ r.val <= MaxPort) THEN ArgumentTypeError
        ELSE [kind |-> "return", val |-> r.val]

NotCalled == [kind |-> "not_called", val |-> 0]

----------------------------------------------------------------------------
(* main, launch_server, attach_everything *)

\* PurgeDaysOf with only values below -1 disabling the purge
PurgeDaysOf_m(days) == IF days < -1 THEN None ELSE <<days>>

\* purge_days = None if args.purge_cache_days < 0 else args.purge_cache_days
PurgeDaysOf(days) == IF days < 0 THEN None ELSE <<days>>

purgeVars == <<dirs, fs, fs0, rel_i, todo, visited, unlinked, logged, oserrors,
               vanished>>

\* parser.parse_args(argv) and the call of launch_server
Main ==
    /\ pc = "main"
    /\ LET p == IF port_arg.given THEN port_type(port_arg.value)
                ELSE [kind |-> "return", val |-> DefaultPort]
       IN  /\ port_result' = IF port_arg.given THEN p ELSE NotCalled
           /\ IF p.kind = "return"
              THEN /\ pc' = "launch"
                   /\ purge_days' = PurgeDaysOf(cli_days)
                   /\ launch_port' = <<p.val>>
                   /\ UNCHANGED exit_status
              ELSE /\ pc' = "exit"
                   /\ exit_status' = <<2>>
                   /\ UNCHANGED <<purge_days, launch_port>>
    /\ UNCHANGED <<cli_days, port_arg, raised_in, events>>
    /\ UNCHANGED purgeVars
    /\ UNCHANGED <<pathVars, stubVars>>

AttachFirst == "register_tools"

\* AttachNext with the two prompt registrations swapped
AttachNext_m(step) ==
    CASE step = "register_tools" -> "register_prompts"
      [] step = "register_prompts" -> "register_prompts_from_markdown"
      [] step = "register_prompts_from_markdown" -> "mcp.run"

\* the order of the calls in attach_everything, then mcp.run
AttachNext(step) ==
    CASE step = "register_tools" -> "register_prompts_from_markdown"
      [] step = "register_prompts_from_markdown" -> "register_prompts"
      [] step = "register_prompts" -> "mcp.run"

\* launch_server after purge_cache has returned
AfterPurge == AttachFirst

\* launch_server up to the call of purge_cache, or past it when purge_days is None
LaunchServer ==
    /\ pc = "launch"
    /\ IF purge_days # None
       THEN /\ pc' = "purge_dir"
            /\ rel_i' = 1
            /\ events' = Append(events, "purge_cache")
       ELSE /\ pc' = AfterPurge
            /\ UNCHANGED <<rel_i, events>>
    /\ UNCHANGED <<cli_days, port_arg, purge_days, launch_port, exit_status,
                   raised_in, port_result>>
    /\ UNCHANGED <<dirs, fs, fs0, todo, visited, unlinked, logged, oserrors, vanished>>
    /\ UNCHANGED <<pathVars, stubVars>>

ctlVars == <<cli_days, port_arg, purge_days, launch_port, exit_status, port_result,
             pathVars, stubVars>>

\* One iteration of `for rel in ("audio", "transcripts")` up to the inner loop:
\* d.exists(), then d.iterdir(). Neither call is inside the try.
PurgeDir ==
    /\ pc = "purge_dir"
    /\ rel_i <= Len(Rels)
    /\ LET d == dirs[Rels[rel_i]]
           listing == {e \in fs : e.rel = Rels[rel_i]}
       IN  \/ \* not d.exists(): continue
              /\ d \in {"missing", "noaccess"}
              /\ rel_i' = rel_i + 1
              /\ UNCHANGED <<pc, todo, raised_in, events>>
           \/ \* d.exists() raises PermissionError (Python < 3.14)
              /\ d = "noaccess"
              /\ pc' = "raised"
              /\ raised_in' = "purge_cache"
              /\ UNCHANGED <<rel_i, todo, events>>
           \/ \* d.iterdir() raises NotADirectoryError
              /\ d = "notdir"
              /\ pc' = "raised"
              /\ raised_in' = "purge_cache"
              /\ UNCHANGED <<rel_i, todo, events>>
           \/ \* d.iterdir() lists the directory
              /\ d = "dir"
              /\ IF listing = {}
                 THEN rel_i' = rel_i + 1 /\ UNCHANGED <<pc, todo>>
                 ELSE pc' = "purge_entry" /\ todo' = listing /\ UNCHANGED rel_i
              /\ UNCHANGED <<raised_in, events>>
    /\ UNCHANGED ctlVars
    /\ UNCHANGED <<dirs, fs, fs0, visited, unlinked, logged, oserrors, vanished>>

\* Handle without the except clause
Handle_m(exc) == "propagate"

\* except OSError: logger.exception(...)
Handle(exc) == IF exc = "OSError" THEN "logged" ELSE "propagate"

\* One iteration of `for path in d.iterdir()`: the try block and its except
PurgeEntry ==
    /\ pc = "purge_entry"
    /\ \E fault \in Faults, lenient \in BOOLEAN :
         LET e == NextEntry(todo)
             cutoff == Cutoff(purge_days[1])
             out == Body(e, cutoff, fault, lenient)
             caught == out # "OSError" \/ Handle(out) = "logged"
         IN  /\ Reached(e, cutoff, fault)
             /\ unlinked' = IF out = "removed" THEN unlinked \cup {e} ELSE unlinked
             /\ logged' = IF out = "OSError" /\ caught THEN logged \cup {e} ELSE logged
             /\ oserrors' = IF fault \in OSFaults THEN oserrors \cup {e} ELSE oserrors
             /\ vanished' = IF fault = "vanish_before_unlink"
                            THEN vanished \cup {e} ELSE vanished
             /\ fs' = IF out = "removed" \/ fault = "vanish_before_unlink"
                      THEN fs \ {e} ELSE fs
             /\ IF caught
                THEN /\ visited' = visited \cup {e}
                     /\ todo' = todo \ {e}
                     /\ IF todo \ {e} = {}
                        THEN pc' = "purge_dir" /\ rel_i' = rel_i + 1
                        ELSE UNCHANGED <<pc, rel_i>>
                     /\ UNCHANGED raised_in
                ELSE /\ pc' = "raised"
                     /\ raised_in' = "purge_cache"
                     /\ UNCHANGED <<visited, todo, rel_i>>
    /\ UNCHANGED ctlVars
    /\ UNCHANGED <<events, dirs, fs0>>

\* purge_cache returns to launch_server
PurgeReturn ==
    /\ pc = "purge_dir"
    /\ rel_i > Len(Rels)
    /\ pc' = AfterPurge
    /\ events' = Append(events, "purge_cache returned")
    /\ UNCHANGED ctlVars
    /\ UNCHANGED <<raised_in>>
    /\ UNCHANGED purgeVars

\* One registration call of attach_everything, made and returned
Register(step) ==
    /\ pc = step
    /\ events' = Append(events, step)
    /\ pc' = AttachNext(step)
    /\ UNCHANGED ctlVars
    /\ UNCHANGED raised_in
    /\ UNCHANGED purgeVars

\* register_tools(mcp, package=paths.tools_dir)
RegisterTools == Register("register_tools")

\* register_prompts_from_markdown(mcp, prompts_dir=paths.prompts_dir)
RegisterPromptsFromMarkdown == Register("register_prompts_from_markdown")

\* register_prompts(mcp, prompts_dir=paths.prompts_dir)
RegisterPrompts == Register("register_prompts")

\* mcp.run(transport="http", host=host, port=port): blocks
Run ==
    /\ pc = "mcp.run"
    /\ pc' = "serving"
    /\ events' = Append(events, "mcp.run")
    /\ UNCHANGED ctlVars
    /\ UNCHANGED <<raised_in>>
    /\ UNCHANGED purgeVars

NoPortArg == [given |-> FALSE, value |-> <<>>]

\* resolve_cache_dir and debug_stub are not running
PathIdle ==
    /\ env = [set |-> FALSE, val |-> [root |-> FALSE, parts |-> <<>>]]
    /\ project_dir = [root |-> FALSE, parts |-> <<>>]
    /\ cache_dir = <<>>
    /\ made_dirs = {}
    /\ path_pc = "idle"

StubIdle ==
    /\ argv = <<>>
    /\ stub_pc = "idle"
    /\ stub_test = <<>>
    /\ dispatched = "none"
    /\ printed = ""
    /\ stub_exit = <<>>

\* The process starts at main; the cache holds any files of any age.
Init ==
    /\ PathIdle
    /\ StubIdle
    /\ pc = "main"
    /\ cli_days \in (0 - NegDays)..MaxDays
    /\ port_arg = NoPortArg
    /\ purge_days = None
    /\ launch_port = <<>>
    /\ exit_status = <<>>
    /\ raised_in = ""
    /\ dirs \in [RelSet -> DirStates]
    /\ \E a \in [EntryIds -> Attrs(cli_days)] :
         fs = {Entry(id, a[id]) : id \in {i \in EntryIds : dirs[i[1]] = "dir"}}
    /\ fs0 = fs
    /\ rel_i = 0
    /\ todo = {}
    /\ visited = {}
    /\ unlinked = {}
    /\ logged = {}
    /\ oserrors = {}
    /\ vanished = {}
    /\ events = <<>>
    /\ port_result = NotCalled

Next ==
    \/ Main
    \/ LaunchServer
    \/ PurgeDir
    \/ PurgeEntry
    \/ PurgeReturn
    \/ RegisterTools
    \/ RegisterPromptsFromMarkdown
    \/ RegisterPrompts
    \/ Run

Spec == Init /\ [][Next]_vars

----------------------------------------------------------------------------
(* Properties of the server start-up, checked under Spec *)

Happened(ev) == \E i \in 1..Len(events) : events[i] = ev

RelIndex(rel) == CHOOSE i \in 1..Len(Rels) : Rels[i] = rel

\* the retention boundary now - d * 86400 of the claims, once d is known
RetentionBoundary == Now - purge_days[1] * 86400

\* C1: purge_cache never removes a file of <cache_root>/audio: after it has
\* returned, every entry audio had before the call (and that no other process
\* deleted) is still there.
C1_AudioUntouched ==
    Happened("purge_cache returned") =>
        /\ \A e \in unlinked : e.rel # "audio"
        /\ \A e \in fs0 : (e.rel = "audio" /\ e \notin vanished) => e \in fs

\* C2: after purge_cache(cache_root, days=d) has returned, d >= 0, a regular
\* file of <cache_root>/transcripts that met no OS error is gone if its mtime
\* is strictly older than now - d*86400 and is still there if it is newer.
C2_TranscriptsRetention ==
    Happened("purge_cache returned") =>
        \A e \in fs0 :
            (e.rel = "transcripts" /\ e.kind = "file"
                /\ e \notin oserrors /\ e \notin vanished) =>
                /\ (e.mtime < RetentionBoundary => e \notin fs /\ e \in unlinked)
                /\ (e.mtime > RetentionBoundary => e \in fs /\ e \notin unlinked)

C2_Witness ==
    /\ Happened("purge_cache returned")
    /\ purge_days # None /\ purge_days[1] >= 1
    /\ \E e \in unlinked : e.rel = "transcripts" /\ e.mtime < RetentionBoundary
    /\ \E e \in fs : e.rel = "transcripts" /\ e.kind = "file"
                      /\ e.mtime > RetentionBoundary /\ e \notin oserrors

\* C3: with a negative --purge-cache-days, launch_server gets purge_days=None,
\* purge_cache is never called and every file under the cache root is left
\* as it was.
C3_DisabledNoMutation ==
    (cli_days < 0 /\ pc # "main") =>
        /\ purge_days = None
        /\ ~Happened("purge_cache")
        /\ unlinked = {}
        /\ fs = fs0

C3_Witness ==
    /\ cli_days < 0
    /\ pc = "serving"
    /\ \E e \in fs : e.kind = "file" /\ e.mtime < Now

\* C4: purge_cache returns normally whatever OS error is met inside it, so no
\* exception ever escapes from purge_cache into launch_server.
C4_PurgeNeverRaises == raised_in # "purge_cache"

Rank(ev) ==
    CASE ev = "purge_cache" -> 1
      [] ev = "purge_cache returned" -> 2
      [] ev = "register_tools" -> 3
      [] ev = "register_prompts_from_markdown" -> 4
      [] ev = "register_prompts" -> 5
      [] ev = "mcp.run" -> 6

Registrations == {"register_tools", "register_prompts_from_markdown", "register_prompts"}

\* C5: in launch_server the purge (when purge_days is not None) has returned
\* before any registration starts; the registrations run in the order tools,
\* markdown prompts, function prompts; mcp.run starts only after all three,
\* and at most once.
C5_LaunchOrder ==
    /\ \A i, j \in 1..Len(events) : i < j => Rank(events[i]) < Rank(events[j])
    /\ \A r \in Registrations :
          (Happened(r) /\ purge_days # None) => Happened("purge_cache returned")
    /\ Happened("register_prompts") => Happened("register_prompts_from_markdown")
    /\ Happened("register_prompts_from_markdown") => Happened("register_tools")
    /\ Happened("mcp.run") => \A r \in Registrations : Happened(r)
    /\ pc = "mcp.run" => \A r \in Registrations : Happened(r)

C5_Witness ==
    /\ pc = "serving"
    /\ Happened("purge_cache returned")
    /\ Happened("mcp.run")

\* C10: an OS error on one entry does not stop the purge: it never escapes
\* from purge_cache, every entry of a listed sub-directory is visited, and
\* every stale regular file that met no error of its own is deleted; a file
\* that is already gone when it is unlinked is not logged as an error.
C10_BestEffort ==
    /\ raised_in = "purge_cache" => dirs[Rels[rel_i]] # "dir"
    /\ \A e \in fs0 :
          (purge_days # None /\ rel_i > RelIndex(e.rel)) =>
              /\ e \in visited
              /\ (e.kind = "file" /\ e.mtime < RetentionBoundary
                    /\ e \notin oserrors /\ e \notin vanished) =>
                        (e \in unlinked /\ e \notin fs)
    /\ vanished \cap logged = {}

C10_Witness ==
    /\ \E e \in logged : e.rel = "audio"
    /\ \E e \in logged, f \in unlinked :
          e.rel = "transcripts" /\ f.rel = "transcripts" /\ e.name < f.name

----------------------------------------------------------------------------
(* main with a --port argument *)

\* the characters a --port argument is made of
PortChars == {"0", "1", "3", "5", "6", "-", " ", "x"}

PortStrings == UNION {[1..n -> PortChars] : n \in 0..MaxPortLen}

ServerIdle ==
    /\ purge_days = None
    /\ launch_port = <<>>
    /\ exit_status = <<>>
    /\ raised_in = ""
    /\ dirs = [r \in RelSet |-> "missing"]
    /\ fs = {}
    /\ fs0 = {}
    /\ rel_i = 0
    /\ todo = {}
    /\ visited = {}
    /\ unlinked = {}
    /\ logged = {}
    /\ oserrors = {}
    /\ vanished = {}
    /\ events = <<>>
    /\ port_result = NotCalled

\* main is called with any --port argument, or none
InitPort ==
    /\ PathIdle
    /\ StubIdle
    /\ ServerIdle
    /\ pc = "main"
    /\ cli_days = DefaultPurgeDays
    /\ port_arg \in {NoPortArg} \cup {[given |-> TRUE, value |-> v] : v \in PortStrings}

NextPort == Main

SpecPort == InitPort /\ [][NextPort]_vars

RECURSIVE Decimal(_)
Decimal(n) ==
    IF n < 10 THEN <<Digits[n + 1]>>
    ELSE Append(Decimal(n \div 10), Digits[(n % 10) + 1])

\* str(n)
Str(n) == IF n < 0 THEN <<"-">> \o Decimal(0 - n) ELSE Decimal(n)

Canonical(v) ==
    /\ v # <<>>
    /\ \A i \in 1..Len(v) : v[i] \in {"0", "1", "3", "5", "6"}
    /\ (v[1] # "0" \/ Len(v) = 1)

PortProbes == {-65535, -1, 0, 1, 3, 10, 65535, 65536, 66666}

\* C8: port_type returns n for every string denoting an integer n in
\* [1, 65535], raises ArgumentTypeError (no other exception, no value) for
\* every integer outside the range and for non-numeric input, and
\* launch_server is never called with a port outside [1, 65535].
C8_PortValidation ==
    /\ launch_port # <<>> => (launch_port[1] >= 1 /\ launch_port[1] <= 65535)
    /\ (pc # "main" /\ port_arg.given) =>
        LET v == port_arg.value
            accepted(n) == /\ port_result = [kind |-> "return", val |-> n]
                           /\ pc = "launch"
                           /\ launch_port = <<n>>
            rejected == /\ port_result.kind = "ArgumentTypeError"
                        /\ pc = "exit"
                        /\ exit_status = <<2>>
                        /\ launch_port = <<>>
        IN  /\ accepted(port_result.val) \/ rejected
            /\ \A n \in PortProbes :
                  v = Str(n) => IF n >= 1 /\ n <= 65535 THEN accepted(n) ELSE rejected
            /\ Canonical(v) =>
                  \/ accepted(port_result.val) /\ Str(port_result.val) = v
                  \/ rejected /\ (v = <<"0">> \/ Len(v) >= 5)
            /\ (\E i \in 1..Len(v) : v[i] = "x") => rejected
            /\ v = <<>> => rejected

C8_Witness ==
    /\ port_arg.given
    /\ port_arg.value = <<"6", "5", "5", "3", "5">>
    /\ pc = "launch"
    /\ launch_port = <<65535>>

----------------------------------------------------------------------------
(* resolve_cache_dir *)

\* A path is [root, parts]: root is TRUE for a path that starts at "/";
\* [root |-> FALSE, parts |-> <<>>] is the empty string.
MkPath(root, parts) == [root |-> root, parts |-> parts]

PathNames == {"~", "..", "a"}

PathSeqs == UNION {[1..n -> PathNames] : n \in 0..MaxPathLen}

Paths == {MkPath(r, ps) : r \in BOOLEAN, ps \in PathSeqs}

\* the user's home directory and the process's working directory
Home == MkPath(TRUE, <<"home", "u">>)

Cwd == MkPath(TRUE, <<"srv">>)

\* project_dir / "Cache"
Join(p, name) == MkPath(p.root, Append(p.parts, name))

\* Path.expanduser(): a leading "~" of a relative path becomes the home directory
expanduser(p) ==
    IF ~p.root /\ p.parts # <<>> /\ Head(p.parts) = "~"
    THEN MkPath(TRUE, Home.parts \o Tail(p.parts))
    ELSE p

RECURSIVE Normalize(_, _)
Normalize(parts, acc) ==
    IF parts = <<>> THEN acc
    ELSE IF Head(parts) = ".."
         THEN Normalize(Tail(parts),
                        IF acc = <<>> THEN acc ELSE SubSeq(acc, 1, Len(acc) - 1))
         ELSE Normalize(Tail(parts), Append(acc, Head(parts)))

\* Path.resolve(): made absolute from the working directory, ".." eliminated
\* (the modelled tree has no symbolic links)
resolve(p) ==
    MkPath(TRUE, Normalize(IF p.root THEN p.parts ELSE Cwd.parts \o p.parts, <<>>))

\* Truthy as `is not None`: the empty string counts as an override
Truthy_m(e) == e.set

\* `if override := os.environ.get("MCP_CACHE_DIR")`: set and not the empty string
Truthy(e) == e.set /\ (e.val.root \/ e.val.parts # <<>>)

resolve_cache_dir(e, project) ==
    IF Truthy(e) THEN resolve(expanduser(e.val))
    ELSE resolve(Join(project, "Cache"))

\* The call of resolve_cache_dir(project_dir) and its return
ResolveCacheDir ==
    /\ path_pc = "call"
    /\ cache_dir' = <<resolve_cache_dir(env, project_dir)>>
    /\ path_pc' = "returned"
    /\ UNCHANGED <<env, project_dir, made_dirs>>
    /\ UNCHANGED <<serverVars, stubVars>>

Unset == [set |-> FALSE, val |-> MkPath(FALSE, <<>>)]

InitPath ==
    /\ StubIdle
    /\ ServerIdle
    /\ pc = "idle"
    /\ cli_days = DefaultPurgeDays
    /\ port_arg = NoPortArg
    /\ env \in {Unset} \cup {[set |-> TRUE, val |-> v] : v \in Paths}
    /\ project_dir \in Paths
    /\ cache_dir = <<>>
    /\ made_dirs = {}
    /\ path_pc = "call"

NextPath == ResolveCacheDir

SpecPath == InitPath /\ [][NextPath]_vars

DotFree(ps) == \A i \in 1..Len(ps) : ps[i] # ".."

\* C9: resolve_cache_dir returns the expanded, absolute form of MCP_CACHE_DIR
\* when it is set and not empty, and <project_dir>/Cache when it is unset or
\* empty; the result is absolute and no directory is created.
C9_CacheDirResolution ==
    path_pc = "returned" =>
        LET r == cache_dir[1]
            o == env.val
            override == env.set /\ o # MkPath(FALSE, <<>>)
        IN  /\ r.root
            /\ DotFree(r.parts)
            /\ made_dirs = {}
            /\ (override /\ o.root /\ DotFree(o.parts)) => r = o
            /\ (override /\ ~o.root /\ DotFree(o.parts) /\ o.parts[1] = "~") =>
                  r.parts = <<"home", "u">> \o Tail(o.parts)
            /\ (override /\ ~o.root /\ DotFree(o.parts) /\ o.parts[1] # "~") =>
                  r.parts = <<"srv">> \o o.parts
            /\ (override /\ o.parts # <<>> /\ o.parts[Len(o.parts)] = "a") =>
                  (r.parts # <<>> /\ r.parts[Len(r.parts)] = "a")
            /\ (~override /\ project_dir.root /\ DotFree(project_dir.parts)) =>
                  r.parts = Append(project_dir.parts, "Cache")
            /\ ~override =>
                  (r.parts # <<>> /\ r.parts[Len(r.parts)] = "Cache")

C9_Witness ==
    /\ path_pc = "returned"
    /\ env.set /\ env.val = MkPath(FALSE, <<"~", "a">>)
    /\ cache_dir = <<MkPath(TRUE, <<"home", "u", "a">>)>>

----------------------------------------------------------------------------
(* debug_stub *)

\* the words a command line of the debug stub is made of
StubTokens == {"--test", "-h", "mcp_yt-server", "MCP_YT-SERVER", "mcp-yt-server",
               "universal-client", "Universal-Client", "yt-search", "stop-server"}

StubArgvs == UNION {[1..n -> StubTokens] : n \in 0..MaxArgs}

\* type=str.lower
Lower(tok) ==
    CASE tok = "MCP_YT-SERVER" -> "mcp_yt-server"
      [] tok = "Universal-Client" -> "universal-client"
      [] OTHER -> tok

\* Choices with the help text's stop-server accepted too
Choices_m == {"mcp_yt-server", "universal-client", "yt-search", "stop-server"}

\* choices=["mcp_yt-server", "universal-client", "yt-search"]
Choices == {"mcp_yt-server", "universal-client", "yt-search"}

\* argparse takes a word that starts with "-" for an option, never for a value
OptionLike(tok) == tok \in {"--test", "-h"}

\* parser.parse_args(): the words are consumed left to right. -h prints the
\* help and exits 0; --test takes the next word, lower-cases it and checks
\* it against the choices; any other word is an unrecognized argument. At the
\* end --test must have been given (required=True). Every error prints the
\* usage and exits 2.
RECURSIVE ParseArgs(_, _, _)
ParseArgs(args, test, extras) ==
    IF args = <<>>
    THEN IF test = <<>> THEN [status |-> "error", test |-> <<>>]
         ELSE IF extras THEN [status |-> "error", test |-> <<>>]
         ELSE [status |-> "ok", test |-> test]
    ELSE IF Head(args) = "-h" THEN [status |-> "help", test |-> <<>>]
    ELSE IF Head(args) = "--test"
         THEN IF Len(args) < 2 \/ OptionLike(args[2])
              THEN [status |-> "error", test |-> <<>>]
              ELSE IF Lower(args[2]) \notin Choices
                   THEN [status |-> "error", test |-> <<>>]
                   ELSE ParseArgs(Tail(Tail(args)), <<Lower(args[2])>>, extras)
    ELSE ParseArgs(Tail(args), test, TRUE)

\* match args.test: the case patterns and the routine each one calls
Dispatch(test) ==
    CASE test = <<"mcp-yt-server">> -> "demo.main"
      [] test = <<"universal-client">> -> "UniversalClient.run"
      [] test = <<"yt-search">> -> "yt_search.test"
      [] OTHER -> "none"

\* debug_stub up to the return of parser.parse_args()
StubParse ==
    /\ stub_pc = "start"
    /\ LET r == ParseArgs(argv, <<>>, FALSE)
       IN  CASE r.status = "ok" ->
                  /\ stub_pc' = "parsed"
                  /\ stub_test' = r.test
                  /\ UNCHANGED <<printed, stub_exit>>
             [] r.status = "help" ->
                  /\ stub_pc' = "exit_in_parse_args"
                  /\ printed' = "help"
                  /\ stub_exit' = <<0>>
                  /\ UNCHANGED stub_test
             [] r.status = "error" ->
                  /\ stub_pc' = "exit_in_parse_args"
                  /\ printed' = "usage"
                  /\ stub_exit' = <<2>>
                  /\ UNCHANGED stub_test
    /\ UNCHANGED <<argv, dispatched>>
    /\ UNCHANGED <<serverVars, pathVars>>

\* debug_stub after parse_args: the len(sys.argv) == 1 check, then the match
StubDispatch ==
    /\ stub_pc = "parsed"
    /\ IF Len(argv) = 0
       THEN /\ printed' = "help"
            /\ stub_exit' = <<1>>
            /\ stub_pc' = "exit"
            /\ UNCHANGED dispatched
       ELSE /\ dispatched' = Dispatch(stub_test)
            /\ stub_pc' = "returned"
            /\ UNCHANGED <<printed, stub_exit>>
    /\ UNCHANGED <<argv, stub_test>>
    /\ UNCHANGED <<serverVars, pathVars>>

InitStub ==
    /\ PathIdle
    /\ ServerIdle
    /\ pc = "idle"
    /\ cli_days = DefaultPurgeDays
    /\ port_arg = NoPortArg
    /\ argv \in StubArgvs
    /\ stub_pc = "start"
    /\ stub_test = <<>>
    /\ dispatched = "none"
    /\ printed = ""
    /\ stub_exit = <<>>

NextStub ==
    \/ StubParse
    \/ StubDispatch

SpecStub == InitStub /\ [][NextStub]_vars

\* C6: for each of the three values --test accepts, debug_stub calls exactly
\* one external routine, a different one per value: no accepted value falls
\* through the match without its routine being called.
C6_EveryModeDispatches ==
    stub_pc = "returned" =>
        /\ dispatched # "none"
        /\ (stub_test = <<"mcp_yt-server">>) = (dispatched = "demo.main")
        /\ (stub_test = <<"universal-client">>) = (dispatched = "UniversalClient.run")
        /\ (stub_test = <<"yt-search">>) = (dispatched = "yt_search.test")

\* C7: with no argument the debug stub prints usage text and exits with a
\* non-zero status, and with a --test value that is not an accepted mode it
\* is rejected inside parse_args; in both cases no routine is called.
C7_UsageErrors ==
    LET rejected == /\ stub_pc \in {"exit", "exit_in_parse_args"}
                    /\ stub_exit # <<>> /\ stub_exit[1] # 0
                    /\ printed \in {"usage", "help"}
                    /\ dispatched = "none"
    IN  stub_pc # "start" =>
            /\ argv = <<>> => rejected
            /\ (Len(argv) = 2 /\ argv[1] = "--test"
                    /\ argv[2] \in {"stop-server", "mcp-yt-server"}) =>
                  (rejected /\ stub_pc = "exit_in_parse_args")

C7_Witness ==
    /\ argv = <<>>
    /\ stub_pc = "exit_in_parse_args"
    /\ stub_exit = <<2>>
    /\ printed = "usage"

====
